---- MODULE Spec2Model ----
(***************************************************************************)
(* Order simulation and backtest execution engine.                         *)
(*                                                                         *)
(* PaperExecutor (src/brokers/paper_executor.py) is the order book and    *)
(* position ledger; StrategyBase.run (src/core/base.py) is the bar replay  *)
(* runner.  Python floats are modelled as exact rationals [n, d].          *)
(***************************************************************************)
EXTENDS Integers, Sequences, FiniteSets, TLC

(***************************************************************************)
(* Bounds of the model.                                                    *)
(***************************************************************************)
\* Spec: place_order calls (each one consumes an order id) and price updates
MaxOrders == 2
MaxTicks == 2
\* SpecLimit: the same, for an order book of limit orders
MaxLimitOrders == 2
MaxLimitTicks == 3
\* SpecMarket: the same, for an order book of market orders
MaxMarketOrders == 3
MaxMarketTicks == 2
\* SpecRoundTrip: the same, for market orders over a longer run of prices
MaxRoundTripOrders == 2
MaxRoundTripTicks == 3
\* SpecRun: bars of one backtest run
MaxBars == 2
\* SpecValidation: place_order calls with any arguments, and price updates
MaxValidationOrders == 2
MaxValidationTicks == 2
\* SpecRerun: orders placed, and results files written, over the calls of
\* run() on one strategy object
MaxRerunOrders == 1
MaxRerunFiles == 1
\* SpecApi: orders placed on the broker the API keeps, over all its runs, and
\* the runs that wrote a results file
MaxApiOrders == 2
MaxApiRuns == 2
\* SpecLive: orders and ticks of one PaperTrader session
MaxLiveOrders == 2
MaxLiveTicks == 2
\* SpecBook: the same, for an order book of two symbols
MaxBookOrders == 3
MaxBookTicks == 1
\* SpecMetrics: bars of one backtest run whose strategy records trades
MaxMetricBars == 3
\* SpecLock: FileLock instances made for one lock file
MaxLockInstances == 3
\* SpecRegistry: background tasks start_strategy creates
MaxTasks == 3
\* SpecHandler: ticks handled and orders placed in one PaperTrader session
MaxHandlerTicks == 2
MaxHandlerOrders == 2
\* SpecPortfolio: orders and price updates of a portfolio of two symbols
MaxPortfolioOrders == 2
MaxPortfolioTicks == 3
\* SpecRates: orders and price updates of an executor that charges
\* commission and slippage
MaxRateOrders == 2
MaxRateTicks == 2

(***************************************************************************)
(* Exact rational arithmetic standing for Python float arithmetic.         *)
(***************************************************************************)
RECURSIVE GCD(_, _)
GCD(a, b) == IF b = 0 THEN a ELSE GCD(b, a % b)

Abs(x) == IF x < 0 THEN -x ELSE x

\* the float n/d, in lowest terms with a positive denominator
Rat(n, d) ==
    LET s == IF d < 0 THEN -1 ELSE 1
        g == GCD(Abs(n), Abs(d))
    IN  [n |-> (s * n) \div g, d |-> (s * d) \div g]

RInt(i) == [n |-> i, d |-> 1]
Zero == RInt(0)
RAdd(x, y) == Rat(x.n * y.d + y.n * x.d, x.d * y.d)
RSub(x, y) == Rat(x.n * y.d - y.n * x.d, x.d * y.d)
RMul(x, y) == Rat(x.n * y.n, x.d * y.d)
RDiv(x, y) == Rat(x.n * y.d, x.d * y.n)
RLt(x, y) == x.n * y.d < y.n * x.d
RLe(x, y) == x.n * y.d <= y.n * x.d

\* Python's None, for an Optional[float]
None == [n |-> 0, d |-> 0]

(***************************************************************************)
(* Inputs.                                                                 *)
(***************************************************************************)
Symbols == {"AAPL", "MSFT"}
Sides == {"buy", "sell", "hold"}
Quantities == {0, 1, 2}
OrderTypes == {"market", "limit", "stop"}
LimitPrices == {None, RInt(100)}
Prices == {RInt(90), RInt(100), RInt(160)}

\* the arguments of the place_order calls the model makes: only a limit order
\* is given a limit price
PlaceInputs ==
    {in \in [symbol : Symbols, side : Sides, quantity : Quantities,
             order_type : OrderTypes, limit_price : LimitPrices] :
        in.order_type # "limit" => in.limit_price = None}

\* well-formed orders for one symbol
ValidInputs ==
    {in \in PlaceInputs :
        /\ in.symbol = "AAPL" /\ in.side \in {"buy", "sell"} /\ in.quantity > 0
        /\ in.order_type \in {"market", "limit"}
        /\ in.order_type = "limit" => in.limit_price # None}

MarketInputs == {in \in ValidInputs : in.order_type = "market"}

\* limit orders: a buy of 1 or 2 shares, a sell of 1
LimitInputs ==
    {in \in ValidInputs :
        in.order_type = "limit" /\ (in.side = "sell" => in.quantity = 1)}

\* the orders a strategy asks its broker for, well-formed or not
RunInputs == {in \in PlaceInputs : in.symbol = "AAPL"}

\* buys of one share, market or limit, of either symbol
BookInputs ==
    {in \in PlaceInputs :
        /\ in.side = "buy" /\ in.quantity = 1
        /\ in.order_type \in {"market", "limit"}
        /\ in.order_type = "limit" => in.limit_price # None}

\* the orders of one share a live strategy places
LiveInputs == {in \in ValidInputs : in.quantity = 1}

\* the prices of Spec and SpecMarket: below and above the limit price
TwoPrices == {RInt(90), RInt(160)}

VARIABLES
    starting_cash,      \* PaperExecutor.starting_cash
    cash,               \* PaperExecutor.cash
    positions,          \* PaperExecutor.positions: symbol -> Position
    orders,             \* PaperExecutor.orders, in insertion order
    order_id_counter,   \* PaperExecutor.order_id_counter
    trades,             \* PaperExecutor.trades
    equity_history,     \* PaperExecutor.equity_history
    commission_rate,    \* PaperExecutor.commission_rate
    slippage_rate,      \* PaperExecutor.slippage_rate
    last_call,          \* the call just made on the executor and its outcome
    evals,              \* the fill evaluations of the last price update
    run_state,          \* where StrategyBase.run is
    data,               \* the closes of the bars get_historical_data returned
    bar_index,          \* bars whose loop iteration has completed
    initial_capital,    \* StrategyBase.initial_capital
    current_equity,     \* StrategyBase.current_equity
    equity_curve,       \* StrategyBase.equity_curve
    run_result,         \* what run() returned or raised
    strategy_trades,    \* StrategyBase.trades, as the pnl of each trade
    results_files,      \* the results written to backtest_results/
    results_db,         \* the results saved to the backtest database
    is_running,         \* PaperTrader.is_running
    is_connected,       \* PaperBroker.is_connected
    update_cursor,      \* the order the update in progress examines next, 0
                        \* when no process_price_update is in progress
    tick_data,          \* the tick_data of the update in progress
    update_start,       \* the ledger as the last stepwise update found it
    handler_pc,         \* the step PaperTrader._handle_price_update is at, 0
                        \* when no tick is being handled
    handler_tick,       \* the tick being handled, and its number
    placed_in,          \* order id -> number of the tick whose on_bar placed it
    first_eval,         \* order id -> number of the tick that first evaluated it
    running_strategies, \* api/main.py running_strategies: name -> task
    tasks,              \* the background tasks start_strategy created
    status_reply,       \* what get_strategy_status last answered
    lock_file,          \* TRUE when the lock file exists
    lock_pc,            \* where each FileLock instance is in acquire/release
    locked              \* FileLock._locked of each instance

executor_vars == <<starting_cash, cash, positions, orders, order_id_counter,
                   trades, equity_history, commission_rate, slippage_rate,
                   last_call, evals>>

run_vars == <<run_state, data, bar_index, initial_capital, current_equity,
              equity_curve, run_result, strategy_trades, results_files,
              results_db>>

live_vars == <<is_running, is_connected, update_cursor, tick_data, update_start>>

handler_vars == <<handler_pc, handler_tick, placed_in, first_eval>>

api_vars == <<running_strategies, tasks, status_reply>>

lock_vars == <<lock_file, lock_pc, locked>>

\* the state outside the executor, one backtest run and the trader's flags
service_vars == <<handler_vars, api_vars, lock_vars>>

vars == <<executor_vars, run_vars, live_vars, service_vars>>

(***************************************************************************)
(* Data model: Order and Position (paper_executor.py 11-36).  stop_loss,   *)
(* take_profit and the creation timestamp of an order are stored by the    *)
(* code and never read again; they are left out.                           *)
(***************************************************************************)
NewOrder(id, in) ==
    [id |-> id, symbol |-> in.symbol, side |-> in.side, quantity |-> in.quantity,
     order_type |-> in.order_type, limit_price |-> in.limit_price,
     status |-> "pending", filled_price |-> None, filled_quantity |-> 0,
     commission |-> Zero]

NewPosition ==
    [quantity |-> 0, avg_price |-> Zero, unrealized_pnl |-> Zero,
     realized_pnl |-> Zero, last_price |-> Zero]

\* the price per share place_order assumes for its cash estimate
EstimatedSharePrice == 100

(***************************************************************************)
(* _check_order_fill: the fill predicate and the fill price.               *)
(***************************************************************************)
\* ShouldFill with the limit comparisons made strict
ShouldFillStrict(order, current_price) ==
    CASE order.order_type = "market" -> TRUE
      [] order.order_type = "limit" ->
            \/ order.side = "buy" /\ RLt(current_price, order.limit_price)
            \/ order.side = "sell" /\ RLt(order.limit_price, current_price)
      [] OTHER -> FALSE

\* TRUE when the order reaches _execute_fill at current_price
ShouldFill(order, current_price) ==
    CASE order.order_type = "market" -> TRUE
      [] order.order_type = "limit" ->
            \/ order.side = "buy" /\ RLe(current_price, order.limit_price)
            \/ order.side = "sell" /\ RLe(order.limit_price, current_price)
      [] OTHER -> FALSE

\* the price place_order estimates a market order at, whatever the update says
BaseFillPriceEstimate(order, current_price) ==
    IF order.order_type = "market" THEN RInt(100) ELSE order.limit_price

\* the price the order fills at, before slippage
BaseFillPrice(order, current_price) ==
    IF order.order_type = "market" THEN current_price ELSE order.limit_price

ApplySlippage(side, fill_price) ==
    IF side = "buy"
    THEN RMul(fill_price, RAdd(RInt(1), slippage_rate))
    ELSE RMul(fill_price, RSub(RInt(1), slippage_rate))

(***************************************************************************)
(* _execute_fill, on a ledger L = [cash, positions, orders, trades, evals].*)
(***************************************************************************)
Commission(fill_price, fill_quantity) ==
    RMul(RMul(fill_price, RInt(fill_quantity)), commission_rate)

TotalCost(fill_price, fill_quantity) ==
    RAdd(RMul(fill_price, RInt(fill_quantity)), Commission(fill_price, fill_quantity))

TotalProceeds(fill_price, fill_quantity) ==
    RSub(RMul(fill_price, RInt(fill_quantity)), Commission(fill_price, fill_quantity))

\* InsufficientCash comparing the cash with the price of one share
InsufficientCashPerShare(c, side, fill_price, fill_quantity) ==
    side = "buy" /\ RLt(c, TotalCost(fill_price, 1))

\* InsufficientCash comparing the cash with the cost before commission
InsufficientCashBeforeCommission(c, side, fill_price, fill_quantity) ==
    side = "buy" /\ RLt(c, RMul(fill_price, RInt(fill_quantity)))

\* a buy the cash does not cover is rejected
InsufficientCash(c, side, fill_price, fill_quantity) ==
    side = "buy" /\ RLt(c, TotalCost(fill_price, fill_quantity))

\* CashAfterFill with a buy charged for one share
CashAfterFillNoQuantity(c, side, fill_price, fill_quantity) ==
    IF side = "buy"
    THEN RSub(c, TotalCost(fill_price, 1))
    ELSE RAdd(c, TotalProceeds(fill_price, fill_quantity))

CashAfterFill(c, side, fill_price, fill_quantity) ==
    IF side = "buy"
    THEN RSub(c, TotalCost(fill_price, fill_quantity))
    ELSE RAdd(c, TotalProceeds(fill_price, fill_quantity))

\* BuyPosition with the fill price taken as the new average price
BuyPositionLastPrice(position, fill_price, fill_quantity) ==
    [position EXCEPT !.avg_price = fill_price,
                     !.quantity = position.quantity + fill_quantity]

BuyPosition(position, fill_price, fill_quantity) ==
    LET total_cost == RAdd(RMul(RInt(position.quantity), position.avg_price),
                           RMul(RInt(fill_quantity), fill_price))
        total_quantity == position.quantity + fill_quantity
    IN  [position EXCEPT
            !.avg_price = IF total_quantity > 0
                          THEN RDiv(total_cost, RInt(total_quantity)) ELSE Zero,
            !.quantity = position.quantity + fill_quantity]

\* SellPosition without the reset of avg_price at quantity 0
SellPositionKeepAvg(position, fill_price, fill_quantity) ==
    LET q == position.quantity - fill_quantity
    IN  [position EXCEPT
            !.realized_pnl =
                IF position.quantity > 0
                THEN RAdd(position.realized_pnl,
                          RMul(RSub(fill_price, position.avg_price),
                               RInt(IF fill_quantity < position.quantity
                                    THEN fill_quantity ELSE position.quantity)))
                ELSE position.realized_pnl,
            !.quantity = IF q <= 0 THEN 0 ELSE q]

\* SellPosition realizing the whole fill quantity, held or not
SellPositionWholeFill(position, fill_price, fill_quantity) ==
    LET realized ==
            IF position.quantity > 0
            THEN RAdd(position.realized_pnl,
                      RMul(RSub(fill_price, position.avg_price), RInt(fill_quantity)))
            ELSE position.realized_pnl
        q == position.quantity - fill_quantity
    IN  IF q <= 0
        THEN [position EXCEPT !.realized_pnl = realized, !.quantity = 0,
                              !.avg_price = Zero]
        ELSE [position EXCEPT !.realized_pnl = realized, !.quantity = q]

SellPosition(position, fill_price, fill_quantity) ==
    LET realized ==
            IF position.quantity > 0
            THEN RAdd(position.realized_pnl,
                      RMul(RSub(fill_price, position.avg_price),
                           RInt(IF fill_quantity < position.quantity
                                THEN fill_quantity ELSE position.quantity)))
            ELSE position.realized_pnl
        q == position.quantity - fill_quantity
    IN  IF q <= 0
        THEN [position EXCEPT !.realized_pnl = realized, !.quantity = 0,
                              !.avg_price = Zero]
        ELSE [position EXCEPT !.realized_pnl = realized, !.quantity = q]

PositionAfterFill(position, side, fill_price, fill_quantity) ==
    IF side = "buy"
    THEN BuyPosition(position, fill_price, fill_quantity)
    ELSE SellPosition(position, fill_price, fill_quantity)

\* positions[symbol], created first when the symbol has none
PositionOf(ps, symbol) ==
    IF symbol \in DOMAIN ps THEN ps[symbol] ELSE NewPosition

PutPosition(ps, symbol, position) ==
    [s \in DOMAIN ps \cup {symbol} |-> IF s = symbol THEN position ELSE ps[s]]

\* a record that carries the price the order asked for
TradeRecordRequestedPrice(order, fill_price, fill_quantity, timestamp) ==
    [order_id |-> order.id, symbol |-> order.symbol, side |-> order.side,
     quantity |-> fill_quantity, price |-> order.limit_price,
     commission |-> Commission(fill_price, fill_quantity),
     timestamp |-> timestamp]

TradeRecord(order, fill_price, fill_quantity, timestamp) ==
    [order_id |-> order.id, symbol |-> order.symbol, side |-> order.side,
     quantity |-> fill_quantity, price |-> fill_price,
     commission |-> Commission(fill_price, fill_quantity),
     timestamp |-> timestamp]

execute_fill(L, i, fill_price, fill_quantity, timestamp) ==
    LET order == L.orders[i]
    IN  IF InsufficientCash(L.cash, order.side, fill_price, fill_quantity)
        THEN [L EXCEPT !.orders[i].status = "rejected"]
        ELSE [L EXCEPT
                !.cash = CashAfterFill(L.cash, order.side, fill_price, fill_quantity),
                !.positions = PutPosition(L.positions, order.symbol,
                                  PositionAfterFill(PositionOf(L.positions, order.symbol),
                                                    order.side, fill_price, fill_quantity)),
                !.orders[i] = [order EXCEPT
                                  !.filled_price = fill_price,
                                  !.filled_quantity = fill_quantity,
                                  !.commission = Commission(fill_price, fill_quantity),
                                  !.status = "filled"],
                !.trades = Append(L.trades,
                                  TradeRecord(order, fill_price, fill_quantity, timestamp))]

check_order_fill(L, i, current_price, timestamp) ==
    LET order == L.orders[i]
    IN  IF ShouldFill(order, current_price)
        THEN execute_fill(L, i,
                          ApplySlippage(order.side, BaseFillPrice(order, current_price)),
                          order.quantity, timestamp)
        ELSE L

\* what one evaluation saw and what it left
EvalRecord(L, M, i, price) ==
    [order_id |-> L.orders[i].id, price |-> price,
     cash_before |-> L.cash, positions_before |-> L.positions,
     trades_before |-> L.trades,
     cash_after |-> M.cash, positions_after |-> M.positions,
     trades_after |-> M.trades, status_after |-> M.orders[i].status]

\* the loop taken from the last order placed to the first
RECURSIVE CheckPendingOrdersLastFirst(_, _, _, _, _)
CheckPendingOrdersLastFirst(L, i, symbol, price, timestamp) ==
    LET j == Len(L.orders) - i + 1
    IN  IF i > Len(L.orders) THEN L
        ELSE IF L.orders[j].symbol = symbol /\ L.orders[j].status = "pending"
             THEN LET M == check_order_fill(L, j, price, timestamp)
                  IN  CheckPendingOrdersLastFirst(
                          [M EXCEPT !.evals = Append(L.evals, EvalRecord(L, M, j, price))],
                          i + 1, symbol, price, timestamp)
             ELSE CheckPendingOrdersLastFirst(L, i + 1, symbol, price, timestamp)

\* the loop of process_price_update over self.orders.items(), from index i on
RECURSIVE CheckPendingOrders(_, _, _, _, _)
CheckPendingOrders(L, i, symbol, price, timestamp) ==
    IF i > Len(L.orders) THEN L
    ELSE IF L.orders[i].symbol = symbol /\ L.orders[i].status = "pending"
         THEN LET M == check_order_fill(L, i, price, timestamp)
              IN  CheckPendingOrders(
                      [M EXCEPT !.evals = Append(L.evals, EvalRecord(L, M, i, price))],
                      i + 1, symbol, price, timestamp)
         ELSE CheckPendingOrders(L, i + 1, symbol, price, timestamp)

(***************************************************************************)
(* _update_unrealized_pnl, _record_equity, get_portfolio_summary.          *)
(***************************************************************************)
UnrealizedOf(position) ==
    IF position.quantity # 0 /\ RLt(Zero, position.last_price)
    THEN IF position.quantity > 0
         THEN RMul(RSub(position.last_price, position.avg_price),
                   RInt(position.quantity))
         ELSE RMul(RSub(position.avg_price, position.last_price),
                   RInt(Abs(position.quantity)))
    ELSE position.unrealized_pnl

update_unrealized_pnl(ps) ==
    [s \in DOMAIN ps |-> [ps[s] EXCEPT !.unrealized_pnl = UnrealizedOf(ps[s])]]

RECURSIVE SumUnrealized(_, _)
SumUnrealized(ps, S) ==
    IF S = {} THEN Zero
    ELSE LET s == CHOOSE x \in S : TRUE
         IN  RAdd(ps[s].unrealized_pnl, SumUnrealized(ps, S \ {s}))

TotalEquity(c, ps) == RAdd(c, SumUnrealized(ps, DOMAIN ps))

EquityPoint(c, ps, timestamp) ==
    [timestamp |-> timestamp, equity |-> TotalEquity(c, ps), cash |-> c,
     unrealized_pnl |-> SumUnrealized(ps, DOMAIN ps)]

\* last_price of the symbol's position, when it has one when the update starts
\* MarkLastPrice marking the position of every symbol
MarkLastPriceEverySymbol(ps, symbol, price) ==
    [s \in DOMAIN ps |-> [ps[s] EXCEPT !.last_price = price]]

MarkLastPrice(ps, symbol, price) ==
    IF symbol \in DOMAIN ps
    THEN [ps EXCEPT ![symbol].last_price = price]
    ELSE ps

(***************************************************************************)
(* The executor's state after construction (PaperExecutor.__init__), and   *)
(* a strategy object before run() (StrategyBase.__init__).                 *)
(***************************************************************************)
\* the starting cash the executor is constructed with
StartingCash == 300

NoCall == [op |-> "none", symbol |-> "None", price |-> None, raised |-> "none", ret |-> 0]

InitExecutor ==
    /\ starting_cash = RInt(StartingCash)
    /\ cash = starting_cash
    /\ positions = << >>
    /\ orders = << >>
    /\ order_id_counter = 0
    /\ trades = << >>
    /\ equity_history = << >>
    /\ last_call = NoCall
    /\ evals = << >>

\* no tick, and no ledger
NoTick == [symbol |-> "None", price |-> None]
NoLedger == [cash |-> Zero, positions |-> << >>, orders |-> << >>,
             trades |-> << >>, evals |-> << >>]

\* a PaperTrader before start() (PaperTrader.__init__), with the
\* is_connected of a PaperBroker after construction
InitLive ==
    /\ is_running = FALSE
    /\ is_connected = TRUE
    /\ update_cursor = 0
    /\ tick_data = NoTick
    /\ update_start = NoLedger

InitStrategy ==
    /\ run_state = "created"
    /\ data = << >>
    /\ bar_index = 0
    /\ initial_capital = 0
    /\ current_equity = 0
    /\ equity_curve = << >>
    /\ run_result = "none"
    /\ strategy_trades = << >>
    /\ results_files = << >>
    /\ results_db = << >>

\* the instances of FileLock made for one lock file
LockInstances == 1..MaxLockInstances

\* no tick being handled
NoHandlerTick == [symbol |-> "None", price |-> None, number |-> 0, returned |-> FALSE]

\* no answer of get_strategy_status yet
NoReply == [name |-> "None", status |-> "none", latest |-> "none"]

\* the API process after import (running_strategies = {}), a PaperTrader
\* that has handled no tick, and FileLock instances after __init__ with no
\* lock file on disk
InitService ==
    /\ handler_pc = 0
    /\ handler_tick = NoHandlerTick
    /\ placed_in = << >>
    /\ first_eval = << >>
    /\ running_strategies = << >>
    /\ tasks = << >>
    /\ status_reply = NoReply
    /\ lock_file = FALSE
    /\ lock_pc = [i \in LockInstances |-> "idle"]
    /\ locked = [i \in LockInstances |-> FALSE]

\* config.DEFAULT_COMMISSION and config.DEFAULT_SLIPPAGE
Init ==
    /\ InitExecutor
    /\ InitStrategy
    /\ InitLive
    /\ InitService
    /\ commission_rate = Zero
    /\ slippage_rate = Zero

\* the rates DEFAULT_COMMISSION and DEFAULT_SLIPPAGE are set to through the
\* environment
Rates == {Zero, Rat(1, 4)}

\* an executor built with these rates
InitRates ==
    /\ InitExecutor
    /\ InitStrategy
    /\ InitLive
    /\ InitService
    /\ commission_rate \in Rates
    /\ slippage_rate \in Rates

(***************************************************************************)
(* PaperExecutor.place_order                                               *)
(***************************************************************************)
\* the ValueError place_order raises for these arguments, or "none"
PlaceOrderError(in, c) ==
    CASE in.side \notin {"buy", "sell"} -> "side"
      [] in.order_type = "limit" /\ in.limit_price = None -> "limit_price"
      [] in.quantity <= 0 -> "quantity"
      [] /\ in.side = "buy" /\ in.order_type = "market"
         /\ RLt(c, RInt(in.quantity * EstimatedSharePrice)) -> "cash"
      [] OTHER -> "none"

\* the executor's part of the step
ExecutorPlaceOrder(in) ==
    /\ order_id_counter' = order_id_counter + 1
    /\ orders' = IF PlaceOrderError(in, cash) = "none"
                 THEN Append(orders, NewOrder(order_id_counter + 1, in))
                 ELSE orders
    /\ last_call' = [NoCall EXCEPT !.op = "place_order",
                                    !.raised = PlaceOrderError(in, cash),
                                    !.ret = order_id_counter + 1]
    /\ UNCHANGED <<starting_cash, cash, positions, trades, equity_history,
                   commission_rate, slippage_rate, evals>>

place_order(in) ==
    /\ ExecutorPlaceOrder(in)
    /\ UNCHANGED <<run_vars, live_vars, service_vars>>

(***************************************************************************)
(* PaperExecutor.process_price_update; the timestamp of an update is its   *)
(* number.                                                                 *)
(***************************************************************************)
ExecutorProcessPriceUpdate(symbol, price) ==
    /\ \E L1 \in {CheckPendingOrders(
                     [cash |-> cash,
                      positions |-> MarkLastPrice(positions, symbol, price),
                      orders |-> orders, trades |-> trades, evals |-> << >>],
                     1, symbol, price, Len(equity_history) + 1)} :
         \E ps \in {update_unrealized_pnl(L1.positions)} :
           /\ cash' = L1.cash
           /\ positions' = ps
           /\ orders' = L1.orders
           /\ trades' = L1.trades
           /\ evals' = L1.evals
           /\ equity_history' =
                 Append(equity_history,
                        EquityPoint(L1.cash, ps, Len(equity_history) + 1))
    /\ last_call' = [NoCall EXCEPT !.op = "process_price_update",
                                    !.symbol = symbol, !.price = price]
    /\ UNCHANGED <<starting_cash, order_id_counter, commission_rate, slippage_rate>>

process_price_update(symbol, price) ==
    /\ ExecutorProcessPriceUpdate(symbol, price)
    /\ UNCHANGED <<run_vars, live_vars, service_vars>>

(***************************************************************************)
(* PaperExecutor.cancel_order, PaperExecutor.cancel_all_orders             *)
(***************************************************************************)
\* the index in orders of the order with this id, 0 when there is none
IndexOf(os, order_id) ==
    IF \E i \in 1..Len(os) : os[i].id = order_id
    THEN CHOOSE i \in 1..Len(os) : os[i].id = order_id
    ELSE 0

\* Cancellable for every order that is not filled
CancellableUnlessFilled(os, order_id) ==
    IndexOf(os, order_id) # 0 /\ os[IndexOf(os, order_id)].status # "filled"

\* Cancellable without the test of the status
CancellableAnyStatus(os, order_id) == IndexOf(os, order_id) # 0

Cancellable(os, order_id) ==
    IndexOf(os, order_id) # 0 /\ os[IndexOf(os, order_id)].status = "pending"

cancel_order(order_id) ==
    /\ orders' = IF Cancellable(orders, order_id)
                 THEN [orders EXCEPT ![IndexOf(orders, order_id)].status = "cancelled"]
                 ELSE orders
    /\ last_call' = [NoCall EXCEPT
                        !.op = "cancel_order",
                        !.ret = IF Cancellable(orders, order_id) THEN 1 ELSE 0]
    /\ UNCHANGED <<starting_cash, cash, positions, order_id_counter, trades,
                   equity_history, commission_rate, slippage_rate, evals>>
    /\ UNCHANGED <<run_vars, live_vars, service_vars>>

\* InCancelScope without the test of the symbol
InCancelScopeAnySymbol(order, symbol) == order.status = "pending"

\* the orders cancel_all_orders(symbol) cancels; symbol "None" is no symbol
InCancelScope(order, symbol) ==
    order.status = "pending" /\ (symbol = "None" \/ order.symbol = symbol)

cancel_all_orders(symbol) ==
    /\ orders' = [i \in 1..Len(orders) |->
                    IF InCancelScope(orders[i], symbol)
                    THEN [orders[i] EXCEPT !.status = "cancelled"]
                    ELSE orders[i]]
    /\ last_call' = [NoCall EXCEPT
                        !.op = "cancel_all_orders",
                        !.symbol = symbol,
                        !.ret = Cardinality({i \in 1..Len(orders) :
                                               InCancelScope(orders[i], symbol)})]
    /\ UNCHANGED <<starting_cash, cash, positions, order_id_counter, trades,
                   equity_history, commission_rate, slippage_rate, evals>>
    /\ UNCHANGED <<run_vars, live_vars, service_vars>>

(***************************************************************************)
(* The executor driven directly by its callers: any sequence of            *)
(* place_order, process_price_update, cancel_order and cancel_all_orders.  *)
(***************************************************************************)
Next ==
    \/ /\ order_id_counter < MaxOrders
       /\ \E in \in ValidInputs : place_order(in)
    \/ /\ Len(equity_history) < MaxTicks
       /\ \E price \in TwoPrices : process_price_update("AAPL", price)
    \/ \E order_id \in 1..(order_id_counter + 1) : cancel_order(order_id)
    \/ cancel_all_orders("None")

Spec == Init /\ [][Next]_vars

\* an order book of limit orders
NextLimit ==
    \/ /\ order_id_counter < MaxLimitOrders
       /\ \E in \in LimitInputs : place_order(in)
    \/ /\ Len(equity_history) < MaxLimitTicks
       /\ \E price \in Prices : process_price_update("AAPL", price)
    \/ \E order_id \in 1..(order_id_counter + 1) : cancel_order(order_id)
    \/ cancel_all_orders("None")

SpecLimit == Init /\ [][NextLimit]_vars

\* an order book of market orders; orders are cancelled all at once
NextMarket ==
    \/ /\ order_id_counter < MaxMarketOrders
       /\ \E in \in MarketInputs : place_order(in)
    \/ /\ Len(equity_history) < MaxMarketTicks
       /\ \E price \in TwoPrices : process_price_update("AAPL", price)
    \/ cancel_all_orders("None")

SpecMarket == Init /\ [][NextMarket]_vars

\* market orders of one share, of either symbol
PortfolioInputs ==
    {in \in PlaceInputs :
        /\ in.side \in {"buy", "sell"} /\ in.quantity = 1
        /\ in.order_type = "market"}

\* a portfolio of two symbols, each with its own price updates
NextPortfolio ==
    \/ /\ order_id_counter < MaxPortfolioOrders
       /\ \E in \in PortfolioInputs : place_order(in)
    \/ /\ Len(equity_history) < MaxPortfolioTicks
       /\ \E symbol \in Symbols, price \in TwoPrices :
             process_price_update(symbol, price)

SpecPortfolio == Init /\ [][NextPortfolio]_vars

\* an order book of market orders on an executor with commission and
\* slippage
NextRates ==
    \/ /\ order_id_counter < MaxRateOrders
       /\ \E in \in MarketInputs : place_order(in)
    \/ /\ Len(equity_history) < MaxRateTicks
       /\ \E price \in TwoPrices : process_price_update("AAPL", price)
    \/ cancel_all_orders("None")

SpecRates == InitRates /\ [][NextRates]_vars

\* an order book of market orders exposed to a longer run of prices
NextRoundTrip ==
    \/ /\ order_id_counter < MaxRoundTripOrders
       /\ \E in \in MarketInputs : place_order(in)
    \/ /\ Len(equity_history) < MaxRoundTripTicks
       /\ \E price \in TwoPrices : process_price_update("AAPL", price)
    \/ cancel_all_orders("None")

SpecRoundTrip == Init /\ [][NextRoundTrip]_vars

\* an order book of two symbols, cancelled per symbol or as a whole
NextBook ==
    \/ /\ order_id_counter < MaxBookOrders
       /\ \E in \in BookInputs : place_order(in)
    \/ /\ Len(equity_history) < MaxBookTicks
       /\ \E symbol \in Symbols, price \in TwoPrices :
             process_price_update(symbol, price)
    \/ \E symbol \in Symbols \cup {"None"} : cancel_all_orders(symbol)

SpecBook == Init /\ [][NextBook]_vars

\* the executor called with any arguments, well-formed or not
NextValidation ==
    \/ /\ order_id_counter < MaxValidationOrders
       /\ \E in \in RunInputs : place_order(in)
    \/ /\ Len(equity_history) < MaxValidationTicks
       /\ \E price \in TwoPrices : process_price_update("AAPL", price)
    \/ cancel_all_orders("None")

SpecValidation == Init /\ [][NextValidation]_vars

(***************************************************************************)
(* StrategyBase.run, with a PaperBroker as the strategy's broker.  The     *)
(* strategy (init, on_bar) is the caller's code: on_bar does nothing,      *)
(* places one order through the broker, or raises.                         *)
(***************************************************************************)
\* params.get('initial_capital', 10000)
DefaultInitialCapital == 10000

\* the bar sequences get_historical_data returns, as their closes
RECURSIVE BarSequences(_)
BarSequences(n) ==
    IF n = 0 THEN {<< >>}
    ELSE BarSequences(n - 1) \cup
         {Append(b, c) : b \in {x \in BarSequences(n - 1) : Len(x) = n - 1},
                         c \in TwoPrices}

\* run() up to the loop: init(), get_historical_data, the tracking fields
run_begin(bars) ==
    /\ run_state = "created"
    /\ data' = bars
    /\ IF bars = << >>
       THEN /\ run_state' = "returned"
            /\ run_result' = "None"
            /\ UNCHANGED <<initial_capital, current_equity, equity_curve,
                           strategy_trades>>
       ELSE /\ run_state' = "running"
            /\ run_result' = "none"
            /\ initial_capital' = DefaultInitialCapital
            /\ current_equity' = DefaultInitialCapital
            /\ equity_curve' = << >>
            /\ strategy_trades' = << >>
    /\ UNCHANGED <<bar_index, results_files, results_db, executor_vars, live_vars, service_vars>>

\* update_equity(timestamp, self.current_equity); a bar's timestamp is its index
update_equity(curve, timestamp, equity) ==
    Append(curve, [timestamp |-> timestamp, equity |-> equity])

\* the ValueError PaperBroker.place_order raises before it reaches the executor
BrokerPlaceOrderError(in) ==
    CASE in.quantity <= 0 -> "quantity"
      [] in.side \notin {"buy", "sell"} -> "side"
      [] in.order_type \notin {"market", "limit"} -> "order_type"
      [] in.order_type = "limit" /\ in.limit_price = None -> "limit_price"
      [] OTHER -> "none"

\* one iteration of the loop whose on_bar returns: the strategy did nothing
run_bar_idle ==
    /\ run_state = "running"
    /\ bar_index < Len(data)
    /\ equity_curve' = update_equity(equity_curve, bar_index + 1, current_equity)
    /\ bar_index' = bar_index + 1
    /\ UNCHANGED <<run_state, data, initial_capital, current_equity, run_result,
                   strategy_trades, results_files, results_db>>
    /\ UNCHANGED <<executor_vars, live_vars, service_vars>>

\* one iteration of the loop whose on_bar calls broker.place_order(in); when
\* the call raises, the strategy catches the error or lets it leave run()
run_bar_place(in, catches) ==
    /\ run_state = "running"
    /\ bar_index < Len(data)
    /\ IF BrokerPlaceOrderError(in) = "none"
       THEN ExecutorPlaceOrder(in)
       ELSE UNCHANGED executor_vars
    /\ IF \/ catches
          \/ BrokerPlaceOrderError(in) = "none" /\ PlaceOrderError(in, cash) = "none"
       THEN /\ equity_curve' =
                  update_equity(equity_curve, bar_index + 1, current_equity)
            /\ bar_index' = bar_index + 1
            /\ UNCHANGED <<run_state, run_result>>
       ELSE /\ run_state' = "raised"
            /\ run_result' = "exception"
            /\ UNCHANGED <<equity_curve, bar_index>>
    /\ UNCHANGED <<data, initial_capital, current_equity, strategy_trades,
                   results_files, results_db, live_vars, service_vars>>

\* one iteration of the loop whose on_bar raises
run_bar_raise ==
    /\ run_state = "running"
    /\ bar_index < Len(data)
    /\ run_state' = "raised"
    /\ run_result' = "exception"
    /\ UNCHANGED <<data, bar_index, initial_capital, current_equity, equity_curve,
                   strategy_trades, results_files, results_db>>
    /\ UNCHANGED <<executor_vars, live_vars, service_vars>>

\* the pnl of the trades a strategy records
Pnls == {-5000, 0, 5000}

\* one iteration of the loop whose on_bar closes a trade, as the strategies of
\* the repository do: record_trade, then current_equity += pnl
run_bar_trade(pnl) ==
    /\ run_state = "running"
    /\ bar_index < Len(data)
    /\ strategy_trades' = Append(strategy_trades, pnl)
    /\ current_equity' = current_equity + pnl
    /\ equity_curve' = update_equity(equity_curve, bar_index + 1, current_equity + pnl)
    /\ bar_index' = bar_index + 1
    /\ UNCHANGED <<run_state, data, initial_capital, run_result, results_files,
                   results_db>>
    /\ UNCHANGED <<executor_vars, live_vars, service_vars>>

\* sum(t['pnl'] for t in self.trades)
RECURSIVE TotalPnl(_)
TotalPnl(ts) == IF ts = << >> THEN 0 ELSE Head(ts) + TotalPnl(Tail(ts))

\* len([t for t in self.trades if t['pnl'] > 0])
WinningTrades(ts) == Cardinality({k \in 1..Len(ts) : ts[k] > 0})

\* WinRate as the ratio of the winning trades
WinRateRatio(ts) ==
    IF Len(ts) > 0 THEN Rat(WinningTrades(ts), Len(ts)) ELSE Zero

\* (winning_trades / total_trades * 100) if total_trades > 0 else 0
WinRate(ts) ==
    IF Len(ts) > 0 THEN Rat(WinningTrades(ts) * 100, Len(ts)) ELSE Zero

\* total_pnl / total_trades if total_trades > 0 else 0
AverageTradePnl(ts) ==
    IF Len(ts) > 0 THEN Rat(TotalPnl(ts), Len(ts)) ELSE Zero

\* the returns list of the Sharpe computation: one entry for each point of
\* the curve after the first, 0 when the equity before it is not positive
RECURSIVE Returns(_, _)
Returns(curve, i) ==
    IF i > Len(curve) THEN << >>
    ELSE LET prev_equity == curve[i - 1].equity
             curr_equity == curve[i].equity
             daily_return == IF prev_equity > 0
                             THEN Rat(curr_equity - prev_equity, prev_equity)
                             ELSE Zero
         IN  <<daily_return>> \o Returns(curve, i + 1)

\* sum(returns)
RECURSIVE SumReturns(_)
SumReturns(rs) == IF rs = << >> THEN Zero ELSE RAdd(Head(rs), SumReturns(Tail(rs)))

\* sum((r - avg_return) ** 2 for r in returns)
RECURSIVE SumSquares(_, _)
SumSquares(rs, avg_return) ==
    IF rs = << >> THEN Zero
    ELSE RAdd(RMul(RSub(Head(rs), avg_return), RSub(Head(rs), avg_return)),
              SumSquares(Tail(rs), avg_return))

\* avg_return / std_return if std_return > 0 else 0, over a non-empty list of
\* returns.  std_return is the square root of the variance, which no
\* rational holds in general: the ratio is kept as its square with its sign,
\* which is 0, positive, negative or equal to another exactly when the
\* ratio is.
SharpeOf(rs) ==
    LET avg_return == RDiv(SumReturns(rs), RInt(Len(rs)))
        variance == RDiv(SumSquares(rs, avg_return), RInt(Len(rs)))
        square == RDiv(RMul(avg_return, avg_return), variance)
    IN  IF RLt(Zero, variance)
        THEN IF RLt(avg_return, Zero) THEN RSub(Zero, square) ELSE square
        ELSE Zero

\* sharpe_ratio of save_backtest_results
SharpeRatio(curve) ==
    IF Len(curve) > 1 /\ Returns(curve, 2) # << >>
    THEN SharpeOf(Returns(curve, 2))
    ELSE Zero

\* the largest drawdown with each drawdown taken over the equity it fell to
RECURSIVE DrawdownOverEquity(_, _, _, _)
DrawdownOverEquity(curve, i, peak, max_drawdown) ==
    IF i > Len(curve) THEN max_drawdown
    ELSE LET equity_val == curve[i].equity
             new_peak == IF equity_val > peak THEN equity_val ELSE peak
             drawdown == IF equity_val > 0
                         THEN Rat(new_peak - equity_val, equity_val)
                         ELSE Zero
         IN  DrawdownOverEquity(curve, i + 1, new_peak,
                                IF RLt(max_drawdown, drawdown) THEN drawdown
                                                               ELSE max_drawdown)

\* the loop of the max drawdown computation, from point i on
RECURSIVE Drawdown(_, _, _, _)
Drawdown(curve, i, peak, max_drawdown) ==
    IF i > Len(curve) THEN max_drawdown
    ELSE LET equity_val == curve[i].equity
             new_peak == IF equity_val > peak THEN equity_val ELSE peak
             drawdown == IF new_peak > 0
                         THEN Rat(new_peak - equity_val, new_peak)
                         ELSE Zero
         IN  Drawdown(curve, i + 1, new_peak,
                      IF RLt(max_drawdown, drawdown) THEN drawdown
                                                     ELSE max_drawdown)

\* max_drawdown of save_backtest_results, a percentage
MaxDrawdown(curve) ==
    IF Len(curve) > 1
    THEN RMul(Drawdown(curve, 1, curve[1].equity, Zero), RInt(100))
    ELSE Zero

\* the results dictionary with the final equity its run started from
BacktestResultsAtStart(ts, curve, capital, equity) ==
    [initial_capital |-> capital,
     final_equity |-> capital,
     total_return |-> equity - capital,
     equity_curve |-> curve,
     trades |-> ts,
     total_trades |-> Len(ts),
     winning_trades |-> WinningTrades(ts),
     losing_trades |-> Len(ts) - WinningTrades(ts),
     win_rate |-> WinRate(ts),
     total_pnl |-> TotalPnl(ts),
     average_trade_pnl |-> AverageTradePnl(ts),
     sharpe_ratio |-> SharpeRatio(curve),
     max_drawdown |-> MaxDrawdown(curve)]

\* the results dictionary save_backtest_results builds
BacktestResults(ts, curve, capital, equity) ==
    [initial_capital |-> capital,
     final_equity |-> equity,
     total_return |-> equity - capital,
     equity_curve |-> curve,
     trades |-> ts,
     total_trades |-> Len(ts),
     winning_trades |-> WinningTrades(ts),
     losing_trades |-> Len(ts) - WinningTrades(ts),
     win_rate |-> WinRate(ts),
     total_pnl |-> TotalPnl(ts),
     average_trade_pnl |-> AverageTradePnl(ts),
     sharpe_ratio |-> SharpeRatio(curve),
     max_drawdown |-> MaxDrawdown(curve)]

\* after the last bar: save_backtest_results, return run_id.  The results
\* file is written outside any try block, so an error of the write leaves
\* run(); an error of the database save is caught and printed.
run_finish(file_ok, db_ok) ==
    /\ run_state = "running"
    /\ bar_index = Len(data)
    /\ \E results \in {BacktestResults(strategy_trades, equity_curve,
                                       initial_capital, current_equity)} :
          IF file_ok
          THEN /\ results_files' = Append(results_files, results)
               /\ results_db' = IF db_ok THEN Append(results_db, results)
                                          ELSE results_db
               /\ run_state' = "completed"
               /\ run_result' = "run_id"
          ELSE /\ run_state' = "raised"
               /\ run_result' = "OSError"
               /\ UNCHANGED <<results_files, results_db>>
    /\ UNCHANGED <<data, bar_index, initial_capital, current_equity, equity_curve,
                   strategy_trades>>
    /\ UNCHANGED <<executor_vars, live_vars, service_vars>>

NextRun ==
    \/ \E bars \in BarSequences(MaxBars) : run_begin(bars)
    \/ run_bar_idle
    \/ \E in \in RunInputs, catches \in BOOLEAN : run_bar_place(in, catches)
    \/ \E pnl \in Pnls : run_bar_trade(pnl)
    \/ run_bar_raise
    \/ \E file_ok, db_ok \in BOOLEAN : run_finish(file_ok, db_ok)

SpecRun == Init /\ [][NextRun]_vars

\* the pnl of the trades of a strategy that can lose its capital
MetricPnls == {-10000, -5000, 5000}

\* bar sequences of one close
MetricBars == {b \in BarSequences(MaxMetricBars) : \A k \in 1..Len(b) : b[k] = RInt(90)}

\* a backtest run whose strategy places no order and records trades
NextMetrics ==
    \/ \E bars \in MetricBars : run_begin(bars)
    \/ run_bar_idle
    \/ \E pnl \in MetricPnls : run_bar_trade(pnl)
    \/ \E file_ok, db_ok \in BOOLEAN : run_finish(file_ok, db_ok)

SpecMetrics == Init /\ [][NextMetrics]_vars

\* run() called on a strategy object whose earlier run() has ended: nothing
\* in run() looks at an earlier call, it starts over
run_again(bars) ==
    /\ run_state \in {"returned", "raised", "completed"}
    /\ data' = bars
    /\ IF bars = << >>
       THEN /\ run_state' = "returned"
            /\ run_result' = "None"
            /\ UNCHANGED <<bar_index, initial_capital, current_equity,
                           equity_curve, strategy_trades>>
       ELSE /\ run_state' = "running"
            /\ run_result' = "none"
            /\ bar_index' = 0
            /\ initial_capital' = DefaultInitialCapital
            /\ current_equity' = DefaultInitialCapital
            /\ equity_curve' = << >>
            /\ strategy_trades' = << >>
    /\ UNCHANGED <<results_files, results_db, executor_vars, live_vars, service_vars>>

\* one strategy object whose run() is called again and again
NextRerun ==
    \/ \E bars \in BarSequences(MaxBars) : run_begin(bars)
    \/ run_bar_idle
    \/ /\ order_id_counter < MaxRerunOrders
       /\ \E in \in RunInputs, catches \in BOOLEAN : run_bar_place(in, catches)
    \/ \E pnl \in Pnls : run_bar_trade(pnl)
    \/ run_bar_raise
    \/ \E file_ok, db_ok \in BOOLEAN : run_finish(file_ok, db_ok)
    \/ /\ Len(results_files) < MaxRerunFiles
       /\ \E bars \in BarSequences(MaxBars) : run_again(bars)

SpecRerun == Init /\ [][NextRerun]_vars

(***************************************************************************)
(* The API (api/main.py): start_strategy and stop_strategy run and cancel  *)
(* a backtest as a background task, on the broker instance get_broker      *)
(* keeps for the broker's name; the order endpoints call the same broker.  *)
(***************************************************************************)
\* start_strategy once the task of an earlier run is gone: a new strategy
\* instance, and the broker get_broker returns, the one it created before
api_start_strategy ==
    /\ run_state \in {"returned", "raised", "completed", "cancelled"}
    /\ run_state' = "created"
    /\ data' = << >>
    /\ bar_index' = 0
    /\ initial_capital' = 0
    /\ current_equity' = 0
    /\ equity_curve' = << >>
    /\ run_result' = "none"
    /\ strategy_trades' = << >>
    /\ UNCHANGED <<results_files, results_db>>
    /\ UNCHANGED <<executor_vars, live_vars, service_vars>>

\* stop_strategy: task.cancel() ends run() at its next await
api_stop_strategy ==
    /\ run_state \in {"created", "running"}
    /\ run_state' = "cancelled"
    /\ run_result' = "CancelledError"
    /\ UNCHANGED <<data, bar_index, initial_capital, current_equity, equity_curve,
                   strategy_trades, results_files, results_db>>
    /\ UNCHANGED <<executor_vars, live_vars, service_vars>>

\* PaperBroker.cancel_all_orders as the class binds it: the definition of
\* lines 349-362, which replaces that of lines 180-185.  It calls the
\* coroutine function executor.cancel_all_orders() without awaiting it, so
\* the body of that function never runs, and the result carries the
\* coroutine object where a count is expected (ret -1).
broker_cancel_all_orders ==
    /\ last_call' = [NoCall EXCEPT !.op = "broker_cancel_all_orders", !.ret = -1]
    /\ UNCHANGED <<starting_cash, cash, positions, orders, order_id_counter,
                   trades, equity_history, commission_rate, slippage_rate, evals>>
    /\ UNCHANGED <<run_vars, live_vars, service_vars>>

\* PaperBroker.get_open_orders, the definition the class ends up with: the
\* executor has no get_open_orders, the AttributeError is caught and logged,
\* and the empty list is what the caller gets
OpenOrdersReturned(os) == << >>

broker_get_open_orders ==
    /\ last_call' = IF is_connected
                    THEN [NoCall EXCEPT !.op = "broker_get_open_orders",
                                        !.ret = Len(OpenOrdersReturned(orders))]
                    ELSE [NoCall EXCEPT !.op = "broker_get_open_orders",
                                        !.raised = "not_connected"]
    /\ UNCHANGED <<starting_cash, cash, positions, orders, order_id_counter,
                   trades, equity_history, commission_rate, slippage_rate, evals>>
    /\ UNCHANGED <<run_vars, live_vars, service_vars>>

NextApi ==
    \/ /\ Len(results_files) < MaxApiRuns
       /\ api_start_strategy
    \/ \E bars \in BarSequences(MaxBars) : run_begin(bars)
    \/ run_bar_idle
    \/ /\ order_id_counter < MaxApiOrders
       /\ \E in \in RunInputs, catches \in BOOLEAN : run_bar_place(in, catches)
    \/ run_bar_raise
    \/ \E file_ok, db_ok \in BOOLEAN : run_finish(file_ok, db_ok)
    \/ api_stop_strategy
    \/ broker_cancel_all_orders
    \/ broker_get_open_orders

SpecApi == Init /\ [][NextApi]_vars

(***************************************************************************)
(* Live mode (paper_trader.py): a PaperTrader, its PaperBroker and the     *)
(* coroutines of one event loop.  process_price_update is followed through *)
(* its loop, one order at a time; the strategy's calls on the broker       *)
(* (place_order, cancel_order) come from coroutines the loop runs when the *)
(* running one hands control back.                                         *)
(***************************************************************************)
\* AwaitYields with every await handing control back to the event loop
AwaitYieldsAlways(callee) == TRUE

\* TRUE when `await callee(...)` can hand control back to the event loop
\* before callee returns.  _check_order_fill and _execute_fill await nothing
\* but each other (no future, no sleep, no I/O), so awaiting them runs them
\* to their end.
AwaitYields(callee) == callee \notin {"_check_order_fill", "_execute_fill"}

\* the event loop can run another coroutine: no update is inside its loop, or
\* the await inside the loop hands control back
LoopFree == update_cursor = 0 \/ AwaitYields("_check_order_fill")

\* PaperTrader.start: initialize() builds a new PaperBroker, and with it a
\* new PaperExecutor, and connects it
trader_start ==
    /\ ~is_running
    /\ LoopFree
    /\ is_running' = TRUE
    /\ is_connected' = TRUE
    /\ cash' = starting_cash
    /\ positions' = << >>
    /\ orders' = << >>
    /\ order_id_counter' = 0
    /\ trades' = << >>
    /\ equity_history' = << >>
    /\ last_call' = NoCall
    /\ evals' = << >>
    /\ update_cursor' = 0
    /\ tick_data' = NoTick
    /\ update_start' = NoLedger
    /\ UNCHANGED <<starting_cash, commission_rate, slippage_rate>>
    /\ placed_in' = << >>
    /\ first_eval' = << >>
    /\ UNCHANGED <<handler_pc, handler_tick, api_vars, lock_vars>>
    /\ UNCHANGED run_vars

\* PaperTrader.stop: stop_streaming, broker.disconnect
trader_stop ==
    /\ is_running
    /\ LoopFree
    /\ is_running' = FALSE
    /\ is_connected' = FALSE
    /\ UNCHANGED <<update_cursor, tick_data, update_start>>
    /\ UNCHANGED <<executor_vars, run_vars, service_vars>>

\* PaperBroker.place_order, called by the strategy
broker_place_order(in) ==
    /\ IF is_connected /\ BrokerPlaceOrderError(in) = "none"
       THEN ExecutorPlaceOrder(in)
       ELSE UNCHANGED executor_vars
    /\ UNCHANGED <<run_vars, live_vars, service_vars>>

\* the ledger the executor holds
Ledger ==
    [cash |-> cash, positions |-> positions, orders |-> orders,
     trades |-> trades, evals |-> evals]

\* _handle_price_update up to the loop of process_price_update: last_price
\* of the symbol's position is set
update_begin(symbol, price) ==
    /\ is_running /\ is_connected
    /\ update_cursor = 0
    /\ positions' = MarkLastPrice(positions, symbol, price)
    /\ evals' = << >>
    /\ update_cursor' = 1
    /\ tick_data' = [symbol |-> symbol, price |-> price]
    /\ update_start' = [Ledger EXCEPT !.positions = positions', !.evals = << >>]
    /\ UNCHANGED <<starting_cash, cash, orders, order_id_counter, trades,
                   equity_history, commission_rate, slippage_rate, last_call>>
    /\ UNCHANGED <<is_running, is_connected>>
    /\ UNCHANGED <<run_vars, service_vars>>

\* one iteration of the loop, on order i of ledger L
CheckOneOrder(L, i, symbol, price, timestamp) ==
    IF L.orders[i].symbol = symbol /\ L.orders[i].status = "pending"
    THEN LET M == check_order_fill(L, i, price, timestamp)
         IN  [M EXCEPT !.evals = Append(L.evals, EvalRecord(L, M, i, price))]
    ELSE L

\* one iteration of the loop of process_price_update
update_check ==
    /\ update_cursor \in 1..Len(orders)
    /\ \E M \in {CheckOneOrder(Ledger, update_cursor, tick_data.symbol,
                                tick_data.price, Len(equity_history) + 1)} :
          /\ cash' = M.cash
          /\ positions' = M.positions
          /\ orders' = M.orders
          /\ trades' = M.trades
          /\ evals' = M.evals
    /\ update_cursor' = update_cursor + 1
    /\ UNCHANGED <<starting_cash, order_id_counter, equity_history,
                   commission_rate, slippage_rate, last_call>>
    /\ UNCHANGED <<is_running, is_connected, tick_data, update_start>>
    /\ UNCHANGED <<run_vars, service_vars>>

\* process_price_update after its loop: _update_unrealized_pnl, _record_equity
update_end ==
    /\ update_cursor = Len(orders) + 1
    /\ \E ps \in {update_unrealized_pnl(positions)} :
          /\ positions' = ps
          /\ equity_history' =
                Append(equity_history, EquityPoint(cash, ps, Len(equity_history) + 1))
    /\ last_call' = [NoCall EXCEPT !.op = "process_price_update",
                                    !.symbol = tick_data.symbol,
                                    !.price = tick_data.price]
    /\ update_cursor' = 0
    /\ tick_data' = NoTick
    /\ UNCHANGED <<starting_cash, cash, orders, order_id_counter, trades,
                   commission_rate, slippage_rate, evals>>
    /\ UNCHANGED <<is_running, is_connected, update_start>>
    /\ UNCHANGED <<run_vars, service_vars>>

NextLive ==
    \/ trader_start
    \/ trader_stop
    \/ /\ Len(equity_history) < MaxLiveTicks
       /\ \E price \in TwoPrices : update_begin("AAPL", price)
    \/ update_check
    \/ update_end
    \/ /\ is_running /\ LoopFree
       /\ order_id_counter < MaxLiveOrders
       /\ \E in \in LiveInputs : broker_place_order(in)
    \/ /\ is_running /\ LoopFree
       /\ \E order_id \in 1..(order_id_counter + 1) : cancel_order(order_id)

SpecLive == Init /\ [][NextLive]_vars

(***************************************************************************)
(* PaperTrader._handle_price_update, one tick at a time: the broker's      *)
(* process_price_update, then the strategy's on_bar, which places an order *)
(* through the broker or does not.  placed_in and first_eval remember, for *)
(* the orders of the executor in use, the tick whose on_bar placed the     *)
(* order and the tick whose update first evaluated it.                     *)
(***************************************************************************)
\* the steps of the handler with the strategy called before the broker
HandlerStepsStrategyFirst == <<"on_bar", "process_price_update">>

\* the steps of the handler, in the order of its statements
HandlerSteps == <<"process_price_update", "on_bar">>

\* the handler is at this step
HandlerAt(step) ==
    handler_pc \in 1..Len(HandlerSteps) /\ HandlerSteps[handler_pc] = step

\* the handler's position after the step it is at
HandlerAdvance == IF handler_pc < Len(HandlerSteps) THEN handler_pc + 1 ELSE 0

\* the handler called with a tick: `if not self.is_running: return`
handle_price_update(symbol, price) ==
    /\ handler_pc = 0
    /\ is_running
    /\ handler_pc' = 1
    /\ handler_tick' = [symbol |-> symbol, price |-> price,
                        number |-> handler_tick.number + 1, returned |-> FALSE]
    /\ UNCHANGED <<placed_in, first_eval, api_vars, lock_vars>>
    /\ UNCHANGED <<executor_vars, run_vars, live_vars>>

\* first_eval after an update whose evaluations are es, at tick number
FirstEvalAfter(fe, es, number) ==
    [id \in DOMAIN fe \cup {es[k].order_id : k \in 1..Len(es)} |->
        IF id \in DOMAIN fe THEN fe[id] ELSE number]

\* await self.broker.process_price_update(tick_data): the broker returns at
\* once when it is not connected
handler_process_price_update ==
    /\ HandlerAt("process_price_update")
    /\ IF is_connected
       THEN /\ ExecutorProcessPriceUpdate(handler_tick.symbol, handler_tick.price)
            /\ first_eval' = FirstEvalAfter(first_eval, evals', handler_tick.number)
       ELSE UNCHANGED <<executor_vars, first_eval>>
    /\ handler_tick' = [handler_tick EXCEPT !.returned = TRUE]
    /\ handler_pc' = HandlerAdvance
    /\ UNCHANGED <<placed_in, api_vars, lock_vars>>
    /\ UNCHANGED <<run_vars, live_vars>>

\* await self.strategy.on_bar(bar_data), the strategy placing no order
handler_on_bar_idle ==
    /\ HandlerAt("on_bar")
    /\ handler_pc' = HandlerAdvance
    /\ UNCHANGED <<handler_tick, placed_in, first_eval, api_vars, lock_vars>>
    /\ UNCHANGED <<executor_vars, run_vars, live_vars>>

\* await self.strategy.on_bar(bar_data), the strategy calling
\* broker.place_order(in); an error of the call ends in the handler's except
handler_on_bar_place(in) ==
    /\ HandlerAt("on_bar")
    /\ IF is_connected /\ BrokerPlaceOrderError(in) = "none"
       THEN /\ ExecutorPlaceOrder(in)
            /\ placed_in' = IF PlaceOrderError(in, cash) = "none"
                            THEN [id \in DOMAIN placed_in \cup {order_id_counter + 1} |->
                                     IF id \in DOMAIN placed_in THEN placed_in[id]
                                     ELSE handler_tick.number]
                            ELSE placed_in
       ELSE UNCHANGED <<executor_vars, placed_in>>
    /\ handler_pc' = HandlerAdvance
    /\ UNCHANGED <<handler_tick, first_eval, api_vars, lock_vars>>
    /\ UNCHANGED <<run_vars, live_vars>>

\* one PaperTrader session, its ticks handled one after the other
NextHandler ==
    \/ trader_start
    \/ trader_stop
    \/ /\ handler_tick.number < MaxHandlerTicks
       /\ \E price \in TwoPrices : handle_price_update("AAPL", price)
    \/ handler_process_price_update
    \/ handler_on_bar_idle
    \/ /\ order_id_counter < MaxHandlerOrders
       /\ \E in \in LiveInputs : handler_on_bar_place(in)

SpecHandler == Init /\ [][NextHandler]_vars

(***************************************************************************)
(* The registry of background runs (api/main.py): running_strategies maps  *)
(* a strategy name to the asyncio task start_strategy created for it.  A   *)
(* task is "scheduled" until the event loop first runs it, "running" while *)
(* run_strategy_background is suspended at an await of strategy.run(),     *)
(* and "finished" or "cancelled" once it is done; cancel_requested is set  *)
(* by task.cancel() and acted on when the event loop next runs the task.   *)
(* The handlers of the endpoints await nothing, each one is a step.        *)
(***************************************************************************)
StrategyNames == {"TurtleStrategy", "PivotStrategy"}

\* the dictionary without the key
Without(dict, key) == [k \in DOMAIN dict \ {key} |-> dict[k]]

\* the dictionary with dict[key] = value
With(dict, key, value) ==
    [k \in DOMAIN dict \cup {key} |-> IF k = key THEN value ELSE dict[k]]

\* the finally clause of run_strategy_background:
\* if req.name in running_strategies: del running_strategies[req.name]
CleanUp(dict, name) == IF name \in DOMAIN dict THEN Without(dict, name) ELSE dict

\* POST /strategies/start: 400 when the name is in running_strategies,
\* else create_task and running_strategies[req.name] = task
start_strategy(name) ==
    /\ name \notin DOMAIN running_strategies
    /\ tasks' = Append(tasks, [name |-> name, state |-> "scheduled",
                               cancel_requested |-> FALSE])
    /\ running_strategies' = With(running_strategies, name, Len(tasks) + 1)
    /\ UNCHANGED <<status_reply, handler_vars, lock_vars>>
    /\ UNCHANGED <<executor_vars, run_vars, live_vars>>

\* POST /strategies/stop: 404 when the name has no task, else task.cancel()
\* and del running_strategies[req.name]
stop_strategy(name) ==
    /\ name \in DOMAIN running_strategies
    /\ tasks' = [tasks EXCEPT ![running_strategies[name]].cancel_requested =
                     tasks[running_strategies[name]].state \in {"scheduled", "running"}]
    /\ running_strategies' = Without(running_strategies, name)
    /\ UNCHANGED <<status_reply, handler_vars, lock_vars>>
    /\ UNCHANGED <<executor_vars, run_vars, live_vars>>

\* the event loop runs a task for the first time: a task cancelled before
\* that never enters its try block; another one runs up to an await of
\* strategy.run() that suspends it
task_begin(t) ==
    /\ t \in 1..Len(tasks)
    /\ tasks[t].state = "scheduled"
    /\ tasks' = [tasks EXCEPT ![t].state =
                     IF tasks[t].cancel_requested THEN "cancelled" ELSE "running"]
    /\ UNCHANGED <<running_strategies, status_reply, handler_vars, lock_vars>>
    /\ UNCHANGED <<executor_vars, run_vars, live_vars>>

\* the event loop runs a suspended task to its end: strategy.run() returns
\* or raises, or CancelledError is thrown into it; the finally clause runs
\* in each case
task_end(t) ==
    /\ t \in 1..Len(tasks)
    /\ tasks[t].state = "running"
    /\ tasks' = [tasks EXCEPT ![t].state =
                     IF tasks[t].cancel_requested THEN "cancelled" ELSE "finished"]
    /\ running_strategies' = CleanUp(running_strategies, tasks[t].name)
    /\ UNCHANGED <<status_reply, handler_vars, lock_vars>>
    /\ UNCHANGED <<executor_vars, run_vars, live_vars>>

\* the state of the task most recently created for the name, "none" when
\* there is none
LatestState(name) ==
    LET ts == {t \in 1..Len(tasks) : tasks[t].name = name}
    IN  IF ts = {} THEN "none"
        ELSE tasks[CHOOSE t \in ts : \A u \in ts : u <= t].state

\* what GET /strategies/status/{strategy_name} answers; run_strategy_background
\* catches every Exception, so the result() of a task that is done raises
\* only for a cancelled one, and that CancelledError is no Exception: the
\* handler does not catch it and the request fails
StatusOfStrategy(name) ==
    IF name \in DOMAIN running_strategies
    THEN CASE tasks[running_strategies[name]].state = "finished" -> "completed"
           [] tasks[running_strategies[name]].state = "cancelled" -> "error"
           [] OTHER -> "running"
    ELSE "not_found"

get_strategy_status(name) ==
    /\ status_reply' = [name |-> name, status |-> StatusOfStrategy(name),
                        latest |-> LatestState(name)]
    /\ UNCHANGED <<running_strategies, tasks, handler_vars, lock_vars>>
    /\ UNCHANGED <<executor_vars, run_vars, live_vars>>

NextRegistry ==
    \/ /\ Len(tasks) < MaxTasks
       /\ \E name \in StrategyNames : start_strategy(name)
    \/ \E name \in StrategyNames : stop_strategy(name)
    \/ \E t \in 1..Len(tasks) : task_begin(t)
    \/ \E t \in 1..Len(tasks) : task_end(t)
    \/ \E name \in StrategyNames : get_strategy_status(name)

SpecRegistry == Init /\ [][NextRegistry]_vars

(***************************************************************************)
(* FileLock (core/lock.py): several instances, each used by one caller,    *)
(* for the same lock file.  lock_file is whether the file exists, locked   *)
(* is the _locked field of an instance and lock_pc its caller's position:  *)
(* "idle" outside of a call, "acquiring" before an os.open of acquire,     *)
(* "sleeping" after a FileExistsError, "opened" between os.open and        *)
(* _locked = True, "releasing" before the test of release, "closed" after  *)
(* os.close and "removed" after os.remove.                                 *)
(***************************************************************************)
\* os.open with O_CREAT | O_EXCL but without O_EXCL: it opens a file that exists
OpenWithoutExcl(file_exists) == TRUE

\* os.open(lock_file, O_CREAT | O_EXCL | O_WRONLY) creates the file, in one
\* step of the file system, when it does not exist, and raises
\* FileExistsError when it does
OpenSucceeds(file_exists) == ~file_exists

LockStep(i, from, to) ==
    /\ lock_pc[i] = from
    /\ lock_pc' = [lock_pc EXCEPT ![i] = to]

LockFrame == UNCHANGED <<executor_vars, run_vars, live_vars, handler_vars, api_vars>>

\* a caller enters acquire()
lock_acquire(i) ==
    /\ LockStep(i, "idle", "acquiring")
    /\ UNCHANGED <<lock_file, locked>>
    /\ LockFrame

\* os.open creates the lock file
lock_open(i) ==
    /\ OpenSucceeds(lock_file)
    /\ LockStep(i, "acquiring", "opened")
    /\ lock_file' = TRUE
    /\ UNCHANGED locked
    /\ LockFrame

\* os.open raises FileExistsError: time.sleep(1)
lock_open_fails(i) ==
    /\ ~OpenSucceeds(lock_file)
    /\ LockStep(i, "acquiring", "sleeping")
    /\ UNCHANGED <<lock_file, locked>>
    /\ LockFrame

\* after the sleep the timeout has not passed: the loop tries again
lock_retry(i) ==
    /\ LockStep(i, "sleeping", "acquiring")
    /\ UNCHANGED <<lock_file, locked>>
    /\ LockFrame

\* after the sleep the timeout has passed: acquire returns False
lock_timeout(i) ==
    /\ LockStep(i, "sleeping", "idle")
    /\ UNCHANGED <<lock_file, locked>>
    /\ LockFrame

\* self._locked = True; return True
lock_acquired(i) ==
    /\ LockStep(i, "opened", "idle")
    /\ locked' = [locked EXCEPT ![i] = TRUE]
    /\ UNCHANGED lock_file
    /\ LockFrame

\* a caller enters release()
lock_release(i) ==
    /\ LockStep(i, "idle", "releasing")
    /\ UNCHANGED <<lock_file, locked>>
    /\ LockFrame

\* if self._locked: os.close(self.fd), else release returns
lock_release_test(i) ==
    /\ LockStep(i, "releasing", IF locked[i] THEN "closed" ELSE "idle")
    /\ UNCHANGED <<lock_file, locked>>
    /\ LockFrame

\* os.remove(self.lock_file)
lock_remove(i) ==
    /\ lock_file
    /\ LockStep(i, "closed", "removed")
    /\ lock_file' = FALSE
    /\ UNCHANGED locked
    /\ LockFrame

\* self._locked = False
lock_released(i) ==
    /\ LockStep(i, "removed", "idle")
    /\ locked' = [locked EXCEPT ![i] = FALSE]
    /\ UNCHANGED lock_file
    /\ LockFrame

NextLock ==
    \/ \E i \in LockInstances : lock_acquire(i)
    \/ \E i \in LockInstances : lock_open(i)
    \/ \E i \in LockInstances : lock_open_fails(i)
    \/ \E i \in LockInstances : lock_retry(i)
    \/ \E i \in LockInstances : lock_timeout(i)
    \/ \E i \in LockInstances : lock_acquired(i)
    \/ \E i \in LockInstances : lock_release(i)
    \/ \E i \in LockInstances : lock_release_test(i)
    \/ \E i \in LockInstances : lock_remove(i)
    \/ \E i \in LockInstances : lock_released(i)

SpecLock == Init /\ [][NextLock]_vars

(***************************************************************************)
(* Properties of the order book and the ledger.                            *)
(***************************************************************************)
Terminal == {"filled", "cancelled", "rejected"}

\* the number of trade records of an order
TradesOf(ts, order_id) == Cardinality({k \in 1..Len(ts) : ts[k].order_id = order_id})

\* the evaluation of an order in a list of evaluations
EvalOf(es, order_id) == es[CHOOSE k \in 1..Len(es) : es[k].order_id = order_id]

\* the order an evaluation is about
OrderOf(e) == orders[IndexOf(orders, e.order_id)]

\* shares of the symbol held in positions ps
Held(ps, symbol) == IF symbol \in DOMAIN ps THEN ps[symbol].quantity ELSE 0

AllFlat == \A s \in DOMAIN positions : positions[s].quantity = 0

\* C1: an order is never removed, a new order is pending, and the status of
\* an order changes only from pending to filled, cancelled or rejected.
C1_StatusMonotonic ==
    [][/\ Len(orders') >= Len(orders)
       /\ \A i \in 1..Len(orders) :
             /\ orders'[i].id = orders[i].id
             /\ orders'[i].status # orders[i].status =>
                   orders[i].status = "pending" /\ orders'[i].status \in Terminal
       /\ \A i \in (Len(orders) + 1)..Len(orders') : orders'[i].status = "pending"
      ]_vars

\* a filled order and a rejected order that a cancel_all_orders call left alone
C1_Witness ==
    /\ last_call.op = "cancel_all_orders"
    /\ \E i, j \in 1..Len(orders) :
          orders[i].status = "filled" /\ orders[j].status = "rejected"

\* C2: when on_bar is about to be invoked for the next bar, every market order
\* placed during an earlier bar has been evaluated against that bar's close:
\* it is filled or rejected, not pending.
C2_EvaluatedBeforeNextBar ==
    (run_state = "running" /\ bar_index >= 1) =>
        \A i \in 1..Len(orders) :
            orders[i].order_type = "market" => orders[i].status # "pending"

\* the predicate of a limit order, as the claim states it
LimitQualifies(o, price) ==
    \/ o.side = "buy" /\ RLe(price, o.limit_price)
    \/ o.side = "sell" /\ RLe(o.limit_price, price)

\* the cash covers the order at its limit price
Affordable(o, c) ==
    o.side = "buy" =>
        RLe(RMul(RMul(o.limit_price, RInt(o.quantity)), RAdd(RInt(1), commission_rate)), c)

\* C3: a price update for the symbol of a limit order leaves the order as it
\* is when it is pending and the price does not satisfy its predicate, fills
\* it at its limit price (one trade record) when it is pending, the price
\* satisfies the predicate and the cash covers it, and leaves it as it is
\* when it is already filled.
C3_LimitFillsOnFirstQualifying ==
    [][last_call'.op = "process_price_update" =>
        \A i \in 1..Len(orders) :
            (orders[i].order_type = "limit" /\ orders[i].symbol = last_call'.symbol) =>
                /\ (orders[i].status = "pending"
                        /\ ~LimitQualifies(orders[i], last_call'.price)) =>
                      orders'[i] = orders[i] /\ TradesOf(trades', orders[i].id) = 0
                /\ (orders[i].status = "pending"
                        /\ LimitQualifies(orders[i], last_call'.price)
                        /\ Affordable(orders[i],
                                      EvalOf(evals', orders[i].id).cash_before)) =>
                      /\ orders'[i].status = "filled"
                      /\ slippage_rate = Zero =>
                            orders'[i].filled_price = orders[i].limit_price
                      /\ orders'[i].filled_quantity = orders[i].quantity
                      /\ TradesOf(trades', orders[i].id) = 1
                /\ orders[i].status = "filled" =>
                      /\ orders'[i] = orders[i]
                      /\ TradesOf(trades', orders[i].id) = TradesOf(trades, orders[i].id)
      ]_vars

\* a limit buy filled by the second update at its limit price and exposed to
\* a third update whose price satisfies its predicate again
C3_Witness ==
    /\ Len(equity_history) = 3
    /\ last_call.op = "process_price_update"
    /\ \E i \in 1..Len(orders) :
          /\ orders[i].order_type = "limit" /\ orders[i].side = "buy"
          /\ LimitQualifies(orders[i], last_call.price)
          /\ orders[i].status = "filled"
          /\ orders[i].filled_price = orders[i].limit_price
          /\ \E k \in 1..Len(trades) :
                trades[k].order_id = orders[i].id /\ trades[k].timestamp = 2
          /\ orders[i].id = 1 /\ order_id_counter = 1

\* filled_price * filled_quantity summed over the filled orders of a side
RECURSIVE FilledValue(_, _, _)
FilledValue(os, i, side) ==
    IF i > Len(os) THEN Zero
    ELSE RAdd(IF os[i].status = "filled" /\ os[i].side = side
              THEN RMul(os[i].filled_price, RInt(os[i].filled_quantity))
              ELSE Zero,
              FilledValue(os, i + 1, side))

C4_Balance ==
    (commission_rate = Zero /\ slippage_rate = Zero) =>
        cash = RAdd(RSub(starting_cash, FilledValue(orders, 1, "buy")),
                    FilledValue(orders, 1, "sell"))

C4_OnlyFillsMoveCash ==
    cash' # cash =>
        /\ last_call'.op = "process_price_update"
        /\ \E i \in 1..Len(orders) :
              orders[i].status = "pending" /\ orders'[i].status = "filled"

\* C4: with zero commission and slippage, cash is the starting cash minus the
\* value of the filled buys plus the value of the filled sells, and only a
\* step that fills an order changes cash.
C4_CashConservation == [] C4_Balance /\ [][C4_OnlyFillsMoveCash]_vars

\* a filled buy, a filled sell and a cash balance that moved
C4_Witness ==
    /\ cash # starting_cash
    /\ \E i, j \in 1..Len(orders) :
          /\ orders[i].status = "filled" /\ orders[i].side = "buy"
          /\ orders[j].status = "filled" /\ orders[j].side = "sell"

\* a buy that reached _execute_fill with less cash than its cost
Unfunded(e) ==
    LET o == OrderOf(e)
        fill_price == RMul(IF o.order_type = "market" THEN e.price ELSE o.limit_price,
                           RAdd(RInt(1), slippage_rate))
        cost == RMul(RMul(fill_price, RInt(o.quantity)), RAdd(RInt(1), commission_rate))
    IN  /\ o.side = "buy"
        /\ o.order_type = "market" \/ (o.order_type = "limit" /\ LimitQualifies(o, e.price))
        /\ RLt(e.cash_before, cost)

\* C5: the evaluation of a buy whose cost exceeds the cash rejects the order
\* and leaves cash, the positions and the trade log as they were.
C5_RejectedLeavesLedger ==
    \A k \in 1..Len(evals) :
        Unfunded(evals[k]) =>
            /\ evals[k].status_after = "rejected"
            /\ OrderOf(evals[k]).status = "rejected"
            /\ evals[k].cash_after = evals[k].cash_before
            /\ evals[k].positions_after = evals[k].positions_before
            /\ evals[k].trades_after = evals[k].trades_before

\* an update that filled one buy and rejected the next for lack of cash
C5_Witness ==
    \E j, k \in 1..Len(evals) :
        /\ j < k
        /\ evals[j].status_after = "filled"
        /\ Unfunded(evals[k])
        /\ evals[k].status_after = "rejected"

\* C6: place_order never raises for lack of cash.
C6_NoInsufficientFundsError ==
    ~(last_call.op = "place_order" /\ last_call.raised = "cash")

\* C7: a sell for more shares than the position holds is never filled,
\* credits no cash and changes no position.
C7_OversellNeverFills ==
    \A k \in 1..Len(evals) :
        (/\ OrderOf(evals[k]).side = "sell"
         /\ Held(evals[k].positions_before, OrderOf(evals[k]).symbol)
                < OrderOf(evals[k]).quantity) =>
            /\ evals[k].status_after # "filled"
            /\ evals[k].cash_after = evals[k].cash_before
            /\ evals[k].positions_after = evals[k].positions_before

\* C8: after a price update for a symbol that has a position, the position's
\* last_price is the price of the update and its unrealized_pnl is
\* (last_price - avg_price) * quantity.
C8_MarkedAfterUpdate ==
    (last_call.op = "process_price_update" /\ last_call.symbol \in DOMAIN positions) =>
        LET p == positions[last_call.symbol]
        IN  /\ p.last_price = last_call.price
            /\ p.unrealized_pnl =
                  RMul(RSub(p.last_price, p.avg_price), RInt(p.quantity))

\* C9: when every position is flat, the total equity of the snapshot and the
\* equity point recorded by the update equal cash.
C9_FlatEquityIsCash ==
    (AllFlat /\ last_call.op = "process_price_update") =>
        /\ TotalEquity(cash, positions) = cash
        /\ equity_history[Len(equity_history)].equity = cash

\* C10: a position of quantity 0 has avg_price 0, and a position opened from
\* flat by a buy has the fill price of that buy as its avg_price.
C10_FlatAvgPriceZero ==
    /\ \A s \in DOMAIN positions :
          positions[s].quantity = 0 => positions[s].avg_price = Zero
    /\ Len(trades) > 0 =>
          LET t == trades[Len(trades)]
          IN  (t.side = "buy" /\ positions[t.symbol].quantity = t.quantity) =>
                  positions[t.symbol].avg_price = t.price

\* a position bought, closed and bought again at another price
C10_Witness ==
    /\ Len(trades) = 3
    /\ trades[1].side = "buy" /\ trades[2].side = "sell" /\ trades[3].side = "buy"
    /\ trades[2].quantity = trades[1].quantity
    /\ trades[3].price # trades[1].price
    /\ positions["AAPL"].quantity = trades[3].quantity
    /\ positions["AAPL"].avg_price = trades[3].price

\* the smaller of two integers
Min(a, b) == IF a < b THEN a ELSE b

\* C11: a sell filled against a long position adds (fill price - avg_price) *
\* min(fill quantity, held quantity) to the position's realized_pnl and has
\* one trade record, a buy fill leaves realized_pnl as it is, and with zero
\* commission a long position opened by one buy and closed by one sell of the
\* same quantity has realized_pnl (exit price - entry price) * quantity.
C11_RealizedPnl ==
    /\ \A k \in 1..Len(evals) :
          LET e == evals[k]
              o == OrderOf(e)
              before == PositionOf(e.positions_before, o.symbol)
          IN  /\ (o.side = "sell" /\ e.status_after = "filled" /\ before.quantity > 0) =>
                    /\ e.positions_after[o.symbol].realized_pnl =
                          RAdd(before.realized_pnl,
                               RMul(RSub(o.filled_price, before.avg_price),
                                    RInt(Min(o.filled_quantity, before.quantity))))
                    /\ TradesOf(trades, o.id) = 1
              /\ (o.side = "buy" /\ e.status_after = "filled") =>
                    e.positions_after[o.symbol].realized_pnl = before.realized_pnl
    /\ (/\ commission_rate = Zero
        /\ Len(trades) = 2
        /\ trades[1].side = "buy" /\ trades[2].side = "sell"
        /\ trades[1].symbol = trades[2].symbol
        /\ trades[1].quantity = trades[2].quantity) =>
            positions[trades[1].symbol].realized_pnl =
                RMul(RSub(trades[2].price, trades[1].price), RInt(trades[1].quantity))

\* a long position of 2 shares opened at one price and closed at another by
\* the sell the last update filled
C11_Witness ==
    /\ Len(trades) = 2
    /\ trades[1].side = "buy" /\ trades[2].side = "sell"
    /\ trades[1].quantity = 2 /\ trades[2].quantity = 2
    /\ trades[1].price # trades[2].price
    /\ Len(evals) = 1 /\ evals[1].order_id = trades[2].order_id
    /\ positions["AAPL"].quantity = 0
    /\ positions["AAPL"].realized_pnl # Zero

\* the trades of a symbol
TradesIn(ts, symbol) == {k \in 1..Len(ts) : ts[k].symbol = symbol}

\* the quantities, and the values price * quantity, of the trades K summed
RECURSIVE SumQuantity(_, _)
SumQuantity(ts, K) ==
    IF K = {} THEN 0
    ELSE LET k == CHOOSE x \in K : TRUE
         IN  ts[k].quantity + SumQuantity(ts, K \ {k})

RECURSIVE SumValue(_, _)
SumValue(ts, K) ==
    IF K = {} THEN Zero
    ELSE LET k == CHOOSE x \in K : TRUE
         IN  RAdd(RMul(ts[k].price, RInt(ts[k].quantity)), SumValue(ts, K \ {k}))

\* C12: a position built by buy fills only holds the sum of their quantities,
\* and its avg_price times that sum is the sum of price * quantity of the fills.
C12_AveragePrice ==
    \A s \in DOMAIN positions :
        (\A k \in TradesIn(trades, s) : trades[k].side = "buy") =>
            /\ positions[s].quantity = SumQuantity(trades, TradesIn(trades, s))
            /\ RMul(positions[s].avg_price, RInt(positions[s].quantity)) =
                  SumValue(trades, TradesIn(trades, s))

\* two buys filled at different prices, by different updates
C12_Witness ==
    /\ Len(trades) = 2
    /\ trades[1].side = "buy" /\ trades[2].side = "buy"
    /\ trades[1].price # trades[2].price
    /\ positions["AAPL"].quantity = trades[1].quantity + trades[2].quantity
    /\ positions["AAPL"].avg_price \notin {trades[1].price, trades[2].price}

\* C13: a place_order call that raises for its side, its missing limit price
\* or its quantity adds no order and leaves cash, the positions, the trade log
\* and the order-id counter as they were.
C13_InvalidOrderMutatesNothing ==
    [][(/\ last_call'.op = "place_order"
        /\ last_call'.raised \in {"side", "limit_price", "quantity"}) =>
            /\ orders' = orders
            /\ cash' = cash
            /\ positions' = positions
            /\ trades' = trades
            /\ order_id_counter' = order_id_counter
      ]_vars

\* C14: every order stored in the order book has kind market or limit.
C14_OnlyKnownKinds ==
    \A i \in 1..Len(orders) : orders[i].order_type \in {"market", "limit"}

\* the status of the order with this id, "unknown" when there is none
StatusOf(os, order_id) ==
    IF IndexOf(os, order_id) = 0 THEN "unknown" ELSE os[IndexOf(os, order_id)].status

\* C15: a cancel_order call never changes cash, a position or a trade record;
\* on an order that is filled, cancelled or rejected, or on an unknown id, it
\* returns false and changes no order; on a pending order it returns true and
\* cancels that order alone, so that a second call on the same id returns
\* false.
C15_CancelIdempotent ==
    [][\A order_id \in 1..(order_id_counter + 1) :
          cancel_order(order_id) =>
              /\ cash' = cash /\ positions' = positions /\ trades' = trades
              /\ StatusOf(orders, order_id) # "pending" =>
                    last_call'.ret = 0 /\ orders' = orders
              /\ StatusOf(orders, order_id) = "pending" =>
                    /\ last_call'.ret = 1
                    /\ StatusOf(orders', order_id) = "cancelled"
                    /\ \A i \in 1..Len(orders) :
                          orders[i].id # order_id => orders'[i] = orders[i]
      ]_vars

\* a cancel_order call that returned false once the order placed first was
\* cancelled and the order placed second was filled
C15_Witness ==
    /\ last_call.op = "cancel_order" /\ last_call.ret = 0
    /\ Len(orders) = 2
    /\ orders[1].status = "cancelled"
    /\ orders[2].status = "filled"
    /\ Len(trades) = 1

\* C16: cancel_all_orders(symbol) sets to cancelled the orders that are
\* pending and, when a symbol is given, of that symbol, leaves every other
\* order, cash, the positions and the trade log as they were, and returns the
\* number of orders it cancelled; after a call without a symbol no order is
\* pending.
C16_CancelAllOrders ==
    [][last_call'.op = "cancel_all_orders" =>
        /\ Len(orders') = Len(orders)
        /\ \A i \in 1..Len(orders) :
              orders'[i] =
                  IF /\ orders[i].status = "pending"
                     /\ last_call'.symbol \in {"None", orders[i].symbol}
                  THEN [orders[i] EXCEPT !.status = "cancelled"]
                  ELSE orders[i]
        /\ last_call'.ret =
              Cardinality({i \in 1..Len(orders) : orders'[i].status # orders[i].status})
        /\ cash' = cash /\ positions' = positions /\ trades' = trades
        /\ last_call'.symbol = "None" =>
              \A i \in 1..Len(orders') : orders'[i].status # "pending"
      ]_vars

\* a call for AAPL that cancelled one order and left a pending order of MSFT
\* and a filled order alone
C16_Witness ==
    /\ last_call.op = "cancel_all_orders"
    /\ last_call.symbol = "AAPL" /\ last_call.ret = 1
    /\ \E i, j, k \in 1..Len(orders) :
          /\ orders[i].symbol = "AAPL" /\ orders[i].status = "cancelled"
          /\ orders[j].symbol = "MSFT" /\ orders[j].status = "pending"
          /\ orders[k].status = "filled"

NoPendingOrder == \A i \in 1..Len(orders) : orders[i].status # "pending"

\* C17: once PaperBroker.cancel_all_orders() has returned, no order of its
\* executor is pending.
C17_BrokerCancelAllOrders ==
    last_call.op = "broker_cancel_all_orders" => NoPendingOrder

\* C18: a run that is about to process its first bar has an order book and a
\* ledger of its own: no order, no trade, no position, the starting cash.
C18_RunHasOwnLedger ==
    (run_state = "running" /\ bar_index = 0) =>
        /\ orders = << >>
        /\ trades = << >>
        /\ positions = << >>
        /\ cash = starting_cash

\* the ledger an update leaves, computed by the loop run in one piece
UpdateResult(L, symbol, price, timestamp) ==
    LET A == CheckPendingOrders(L, 1, symbol, price, timestamp)
    IN  [A EXCEPT !.positions = update_unrealized_pnl(A.positions)]

C19_UpdateInOnePiece ==
    (/\ last_call.op = "process_price_update"
     /\ update_cursor = 0 /\ update_start # NoLedger) =>
        Ledger = UpdateResult(update_start, last_call.symbol, last_call.price,
                              Len(equity_history))

C19_LoopNotInterleaved ==
    update_cursor > 0 =>
        /\ update_cursor' \in {update_cursor + 1, 0}
        /\ order_id_counter' = order_id_counter
        /\ Len(orders') = Len(orders)
        /\ tick_data' \in {tick_data, NoTick}

TraderStopped == ~is_running /\ ~is_connected

C21_EquityPointFromLedger ==
    (run_state = "running" /\ bar_index >= 1) =>
        /\ Len(equity_curve) = bar_index
        /\ RInt(equity_curve[bar_index].equity) = TotalEquity(cash, positions)

\* C22: a run() whose bar source returned no bars has raised NoDataError, and
\* no results were written.
C22_NoDataRaises ==
    (run_state # "created" /\ data = << >>) =>
        /\ run_state = "raised" /\ run_result = "NoDataError"
        /\ results_files = << >> /\ results_db = << >>

\* C23: when an exception of on_bar has left run(), a result of the run holds
\* the equity points and the trades recorded for the bars before.
C23_PartialResultsKept ==
    (run_state = "raised" /\ run_result = "exception") =>
        \E k \in 1..Len(results_files) :
            /\ results_files[k].equity_curve = equity_curve
            /\ results_files[k].trades = strategy_trades

\* C24: a run() that has processed every bar and has ended has returned its
\* run id, whether or not the results file and the database could be written.
C24_SaveFailureSwallowed ==
    (run_state # "running" /\ Len(data) > 0 /\ bar_index = Len(data)) =>
        run_state = "completed" /\ run_result = "run_id"

\* C25: the win_rate of recorded results is winning_trades / total_trades, a
\* ratio between 0 and 1, and win_rate and average_trade_pnl are 0 when there
\* are no trades.
C25_WinRateIsRatio ==
    \A k \in 1..Len(results_files) :
        LET r == results_files[k]
        IN  /\ r.total_trades > 0 =>
                  /\ r.win_rate = Rat(r.winning_trades, r.total_trades)
                  /\ RLe(Zero, r.win_rate) /\ RLe(r.win_rate, RInt(1))
            /\ r.total_trades = 0 =>
                  r.win_rate = Zero /\ r.average_trade_pnl = Zero

\* what the fill of the order of evaluation e takes from the cash of a buyer
EvalCost(e) ==
    RMul(RMul(RMul(e.price, RAdd(RInt(1), slippage_rate)),
              RInt(OrderOf(e).quantity)),
         RAdd(RInt(1), commission_rate))

\* C26: the evaluations of one process_price_update follow the order in which
\* the orders were placed, no order is evaluated twice, and each evaluation
\* starts from the cash, the positions and the trade log the one before it
\* left; of two market buys with no sell evaluated between them, where the
\* cash covers the first but not both, the earlier fills and the later is
\* rejected.
C26_EvaluatedInPlacementOrder ==
    /\ \A k \in 1..(Len(evals) - 1) :
          /\ evals[k].order_id < evals[k + 1].order_id
          /\ evals[k + 1].cash_before = evals[k].cash_after
          /\ evals[k + 1].positions_before = evals[k].positions_after
          /\ evals[k + 1].trades_before = evals[k].trades_after
    /\ \A j, k \in 1..Len(evals) :
          (/\ j < k
           /\ \A m \in j..k : /\ OrderOf(evals[m]).side = "buy"
                               /\ OrderOf(evals[m]).order_type = "market"
           /\ RLe(EvalCost(evals[j]), evals[j].cash_before)
           /\ RLt(evals[j].cash_before,
                  RAdd(EvalCost(evals[j]), EvalCost(evals[k]))))
          => /\ evals[j].status_after = "filled"
             /\ evals[k].status_after = "rejected"

\* an update that evaluated two buys of the same size, filled the one placed
\* first and rejected the other for the cash the first had taken
C26_Witness ==
    /\ last_call.op = "process_price_update"
    /\ \E k \in 1..(Len(evals) - 1) :
          /\ OrderOf(evals[k]).side = "buy" /\ OrderOf(evals[k + 1]).side = "buy"
          /\ OrderOf(evals[k]).quantity = OrderOf(evals[k + 1]).quantity
          /\ evals[k].status_after = "filled"
          /\ evals[k + 1].status_after = "rejected"
          /\ RLt(evals[k + 1].cash_before, evals[k].cash_before)

\* the records of the trade log that carry this order id
RecordsOf(order_id) == {k \in 1..Len(trades) : trades[k].order_id = order_id}

\* C27: the trade log holds one record for each filled order, with the
\* order's id, filled quantity and fill price, no record for an order that is
\* pending, cancelled or rejected, and its records are in the order of the
\* fills: by update, and within one update by placement.
C27_OneRecordPerFill ==
    /\ \A i \in 1..Len(orders) :
          IF orders[i].status = "filled"
          THEN /\ Cardinality(RecordsOf(orders[i].id)) = 1
               /\ \A k \in RecordsOf(orders[i].id) :
                     /\ trades[k].quantity = orders[i].filled_quantity
                     /\ trades[k].price = orders[i].filled_price
          ELSE RecordsOf(orders[i].id) = {}
    /\ \A k \in 1..Len(trades) : IndexOf(orders, trades[k].order_id) # 0
    /\ \A k \in 1..(Len(trades) - 1) :
          \/ trades[k].timestamp < trades[k + 1].timestamp
          \/ /\ trades[k].timestamp = trades[k + 1].timestamp
             /\ trades[k].order_id < trades[k + 1].order_id

\* two fills of one update in the log, beside an order that ended rejected or
\* cancelled
C27_Witness ==
    /\ Len(trades) = 2
    /\ trades[1].timestamp = trades[2].timestamp
    /\ \E i \in 1..Len(orders) : orders[i].status \in {"rejected", "cancelled"}

\* the fields of a record of the trade history
TradeFields ==
    {"order_id", "symbol", "side", "quantity", "price", "commission", "timestamp"}

\* the order has one record in the log ts, with these fields and this price
RecordedAt(ts, order_id, price) ==
    /\ TradesOf(ts, order_id) = 1
    /\ \A k \in 1..Len(ts) :
          ts[k].order_id = order_id =>
              DOMAIN ts[k] = TradeFields /\ ts[k].price = price

PendingIds(os) == {os[i].id : i \in {j \in 1..Len(os) : os[j].status = "pending"}}

\* C29: get_open_orders of a connected PaperBroker returns the pending
\* orders, all of them and nothing else: as many entries as there are pending
\* orders.
C29_OpenOrdersArePending ==
    (last_call.op = "broker_get_open_orders" /\ last_call.raised = "none") =>
        last_call.ret = Cardinality(PendingIds(orders))

\* a curve with at least one point whose equity values are all positive
AllPositive(curve) ==
    Len(curve) >= 1 /\ \A k \in 1..Len(curve) : curve[k].equity > 0

\* C31: the max_drawdown of the results saved for an equity curve with at
\* least one point and positive values only is between 0 and 100.
C31_DrawdownBounds ==
    \A k \in 1..Len(results_files) :
        AllPositive(results_files[k].equity_curve) =>
            /\ RLe(Zero, results_files[k].max_drawdown)
            /\ RLe(results_files[k].max_drawdown, RInt(100))

\* results saved for a curve of positive values that fell from its peak
C31_Witness ==
    \E k \in 1..Len(results_files) :
        /\ AllPositive(results_files[k].equity_curve)
        /\ Len(results_files[k].equity_curve) = 3
        /\ RLt(RInt(50), results_files[k].max_drawdown)

\* the returns of the periods whose previous equity is not 0
RECURSIVE ReturnsSkipping(_, _)
ReturnsSkipping(curve, i) ==
    IF i > Len(curve) THEN << >>
    ELSE IF curve[i - 1].equity = 0
         THEN ReturnsSkipping(curve, i + 1)
         ELSE <<Rat(curve[i].equity - curve[i - 1].equity, curve[i - 1].equity)>>
              \o ReturnsSkipping(curve, i + 1)

\* mean over deviation of the returns that are not skipped, 0 when there are
\* fewer than two of them or they are all equal
SharpeSkipping(curve) ==
    LET rs == ReturnsSkipping(curve, 2)
    IN  IF Len(rs) < 2 \/ (\A j \in 1..Len(rs) : rs[j] = rs[1])
        THEN Zero
        ELSE SharpeOf(rs)

\* C32: the Sharpe ratio of saved results is computed over the returns of
\* the periods whose previous equity is not 0, a period whose previous
\* equity is 0 adding nothing to the mean or the deviation, and is 0 when
\* fewer than 2 returns exist or all returns are equal.
C32_SharpeSkipsZeroEquity ==
    \A k \in 1..Len(results_files) :
        results_files[k].sharpe_ratio = SharpeSkipping(results_files[k].equity_curve)

C35_OtherSymbolsUntouched ==
    [][last_call'.op = "process_price_update" =>
        /\ Len(orders') = Len(orders)
        /\ \A i \in 1..Len(orders) :
              orders[i].symbol # last_call'.symbol => orders'[i] = orders[i]
        /\ \A s \in DOMAIN positions :
              s # last_call'.symbol =>
                  s \in DOMAIN positions' /\ positions'[s] = positions[s]
        /\ \A s \in DOMAIN positions' :
              s # last_call'.symbol => s \in DOMAIN positions
      ]_vars

\* an update for one symbol that filled an order of it, beside a position
\* held in the other symbol and marked at another price
C35_Witness ==
    /\ last_call.op = "process_price_update"
    /\ \E k \in 1..Len(evals) : evals[k].status_after = "filled"
    /\ \E s \in DOMAIN positions :
          /\ s # last_call.symbol
          /\ positions[s].quantity > 0
          /\ RLt(Zero, positions[s].last_price)
          /\ positions[s].last_price # last_call.price
          /\ positions[s].unrealized_pnl # Zero

ActiveTasks(name) ==
    {t \in 1..Len(tasks) :
        /\ tasks[t].name = name
        /\ tasks[t].state \in {"scheduled", "running"}
        /\ ~tasks[t].cancel_requested}

\* C37: at most one background run per strategy name is active, and
\* running_strategies[name], when present, is the most recently started run
\* of the name that has not finished.
C37_OneRunPerName ==
    \A name \in StrategyNames :
        /\ Cardinality(ActiveTasks(name)) <= 1
        /\ name \in DOMAIN running_strategies =>
              /\ running_strategies[name] \in ActiveTasks(name)
              /\ \A t \in ActiveTasks(name) : t <= running_strategies[name]

\* C38: once the task of the latest run started for a name has finished,
\* get_strategy_status for the name answers "completed" or "failed".
C38_StatusAfterFinish ==
    status_reply.latest = "finished" =>
        status_reply.status \in {"completed", "failed"}

\* the instance has created the lock file and has not removed it
Holds(i) ==
    \/ lock_pc[i] = "opened"
    \/ locked[i] /\ lock_pc[i] # "removed"

\* C39: at most one FileLock instance holds the lock of a lock file at any
\* time, the file exists while it is held, and a release() by an instance
\* that does not hold the lock returns and leaves the lock file as it is:
\* only the holder removes the file.
C39_MutualExclusion ==
    /\ [](/\ Cardinality({i \in LockInstances : Holds(i)}) <= 1
          /\ (\E i \in LockInstances : Holds(i)) => lock_file)
    /\ [][/\ \A i \in LockInstances :
                (lock_pc[i] = "releasing" /\ ~Holds(i) /\ lock_pc'[i] # "releasing")
                    => (lock_pc'[i] = "idle" /\ lock_file' = lock_file)
          /\ (lock_file /\ ~lock_file') =>
                \E i \in LockInstances : Holds(i) /\ lock_pc'[i] = "removed"]_vars

\* an instance is in release() without holding the lock while another
\* instance holds it and a third one waits for it
C39_Witness ==
    \E i, j, k \in LockInstances :
        /\ lock_pc[i] = "releasing" /\ ~Holds(i)
        /\ Holds(j) /\ locked[j] /\ lock_pc[j] = "idle"
        /\ lock_pc[k] = "sleeping"
        /\ lock_file

\* C30: once run() has completed or failed, no later step starts another
\* replay on the same object or changes the equity points and the trades it
\* recorded.
C30_RunSingleUse ==
    [][(run_state \in {"completed", "raised"}) =>
          (/\ run_state' = run_state
           /\ bar_index' = bar_index
           /\ equity_curve' = equity_curve
           /\ strategy_trades' = strategy_trades)]_vars

====
